---- MODULE Spec2Model ----
(***************************************************************************)
(* A model of pulp's celery-beat scheduler core                            *)
(* (server/pulp/server/async/scheduler.py): the FailureWatcher watch       *)
(* table, the task event handlers, the Scheduler's schedule cache and      *)
(* tick, the EventMonitor loop and the Scheduler construction.             *)
(*                                                                         *)
(* Encoding of Python values:                                              *)
(*   - None in a string slot (a schedule id, a task id) is the string      *)
(*     None; None in the has_failure slot of the pop sentinel is None too  *)
(*     and is only ever read after the schedule id was found non-None;     *)
(*   - a nullable integer (remaining_runs, failure_threshold) and the      *)
(*     nullable dict _schedule are sequences of length at most one:        *)
(*     <<>> is None and <<v>> is the value v;                              *)
(*   - a dict is a function, a celery event is a function from its keys.   *)
(***************************************************************************)
EXTENDS Integers, Sequences, FiniteSets, TLC

None == "None"

\* The task ids (uuids) the dispatcher and the task system hand out.
TaskIds == {"t1", "t2"}

\* The ids of ScheduledCall documents.
ScheduleIds == {"s1", "s2"}

\* The keys of app.conf.CELERYBEAT_SCHEDULE, the statically configured entries.
StaticKeys == {"static"}

\* FailureWatcher.ttl: how long a task is tracked, in seconds.
ttl == 14400

\* Clock bounds: the epoch clock advances by single seconds, at most MaxSecs
\* of them in a row, and by whole ttl periods, at most MaxJumps of them.
MaxSecs == 1
MaxJumps == 1

\* The store's update stamps (last_updated) are 1..MaxStamp.
MaxStamp == 3

\* The beat framework constructs at most MaxInstances Schedulers.
MaxInstances == 2

\* The event monitor's run() catches at most MaxErrors exceptions.
MaxErrors == 1

\* At most MaxDeletes _delete_queue tasks are queued.
MaxDeletes == 2

\* The worker timeout monitor sleeps at most MaxSleeps times.
MaxSleeps == 7

\* num_reservations of an AvailableQueue is 0..MaxReservations.
MaxReservations == 1

\* The values of failure_threshold and of remaining_runs writers put in the store.
Thresholds == {<<>>, <<1>>, <<2>>}
RemainingRuns == {<<>>, <<0>>, <<1>>}

VARIABLES
    now,                      \* time.time(), epoch seconds
    _watches,                 \* FailureWatcher._watches
    scheduled_calls,          \* the ScheduledCall collection of the store
    store_clock,              \* the latest last_updated stamp the store gave out
    _schedule,                \* Scheduler._schedule
    _loaded_from_db_count,    \* Scheduler._loaded_from_db_count
    _most_recent_timestamp,   \* Scheduler._most_recent_timestamp
    event,                    \* the event the event monitor handled last
    result,                   \* the result of that event's task
    popped,                   \* what that handler's pop returned
    store_calls,              \* the store calls that handler made
    step,                     \* the last step: "tick", "event" or "other"
    dispatched,               \* the entries the last tick dispatched: name -> task id
    trimmed,                  \* the watches the last trim removed
    instances,                \* the Scheduler instances constructed so far
    threads,                  \* the threads started in the process
    emPc,                     \* where the event monitor thread is
    handlers,                 \* the event types its Receiver has handlers for
    wakeup,                   \* whether its capture() asked the workers for a heartbeat
    caught,                   \* the exception run() caught
    log,                      \* what run() logged with _logger.error
    trim_state,               \* the trim() the beat thread is inside of
    available_queues,         \* the store's AvailableQueue records, by worker name
    delete_queue_tasks,       \* the _delete_queue tasks queued for the resource manager
    propagated,               \* the exception the last step raised to its caller
    wtPc,                     \* where the worker timeout monitor thread is
    wtCaught,                 \* the exception its run() caught
    wtLog                     \* what its run() logged with _logger.error

watcherVars == <<_watches>>
storeVars == <<scheduled_calls, store_clock>>
schedulerVars == <<_schedule, _loaded_from_db_count, _most_recent_timestamp>>
stepVars == <<step, event, result, popped, store_calls, dispatched, trimmed, propagated>>
processVars == <<instances, threads>>
monitorVars == <<emPc, handlers, wakeup, caught, log>>
trimVars == <<trim_state>>
workerVars == <<available_queues, delete_queue_tasks>>
timeoutVars == <<wtPc, wtCaught, wtLog>>
vars == <<now, watcherVars, storeVars, schedulerVars, stepVars, processVars, monitorVars,
          trimVars, workerVars, timeoutVars>>

----------------------------------------------------------------------------
(* FailureWatcher *)

_default_pop == <<None, None, None>>

WatchedTask(timestamp, schedule_id, has_failure) ==
    [timestamp |-> timestamp, schedule_id |-> schedule_id, has_failure |-> has_failure]

\* dict restricted to the keys in keep
Restrict(d, keep) == [k \in DOMAIN d \cap keep |-> d[k]]

\* dict with d[key] = value set
Assign(d, key, value) == [k \in DOMAIN d \cup {key} |-> IF k = key THEN value ELSE d[k]]

\* trim() with the comparison slipped to <=: a watch exactly ttl old goes too.
trim_at_ttl(watches, time) ==
    LET oldest_allowed == time - ttl
        expired == {task_id \in DOMAIN watches : watches[task_id].timestamp <= oldest_allowed}
    IN  Restrict(watches, DOMAIN watches \ expired)

\* trim(): oldest_allowed = int(time.time()) - ttl; every watch with
\* timestamp < oldest_allowed is popped.
trim(watches, time) ==
    LET oldest_allowed == time - ttl
        expired == {task_id \in DOMAIN watches : watches[task_id].timestamp < oldest_allowed}
    IN  Restrict(watches, DOMAIN watches \ expired)

\* add(): self._watches[task_id] = WatchedTask(int(time.time()), schedule_id, has_failure)
add(watches, task_id, schedule_id, has_failure, time) ==
    Assign(watches, task_id, WatchedTask(time, schedule_id, has_failure))

\* pop() with a default of one item after the slice.
pop_short_default(watches, task_id) ==
    [returned |-> IF task_id \in DOMAIN watches
                  THEN <<watches[task_id].schedule_id, watches[task_id].has_failure>>
                  ELSE <<_default_pop[3]>>,
     watches |-> Restrict(watches, DOMAIN watches \ {task_id})]

\* pop(): self._watches.pop(task_id, self._default_pop)[1:], with the dict it leaves
pop(watches, task_id) ==
    [returned |-> IF task_id \in DOMAIN watches
                  THEN <<watches[task_id].schedule_id, watches[task_id].has_failure>>
                  ELSE <<_default_pop[2], _default_pop[3]>>,
     watches |-> Restrict(watches, DOMAIN watches \ {task_id})]

----------------------------------------------------------------------------
(* The ScheduleStore: pulp.server.managers.schedule.utils over the          *)
(* ScheduledCall collection. Its code is not part of the sources at hand;   *)
(* the operations are modelled from their description. Every write of a     *)
(* document advances its last_updated to a stamp later than every stamp     *)
(* given out before.                                                        *)

ScheduledCall(enabled, remaining_runs, consecutive_failures, failure_threshold, last_updated) ==
    [enabled |-> enabled, remaining_runs |-> remaining_runs,
     consecutive_failures |-> consecutive_failures,
     failure_threshold |-> failure_threshold, last_updated |-> last_updated]

\* utils.get_enabled(): the ids of the enabled calls
get_enabled(db) == {id \in DOMAIN db : db[id].enabled}

\* utils.get_updated_since(seconds): the ids of the enabled calls updated after seconds
get_updated_since(db, seconds) ==
    {id \in DOMAIN db : db[id].enabled /\ db[id].last_updated > seconds}

\* utils.increment_failure_count(schedule_id): atomic; the schedule is
\* disabled when the incremented count reaches its failure_threshold.
increment_failure_count(db, schedule_id, stamp) ==
    IF schedule_id \notin DOMAIN db THEN db
    ELSE LET call == db[schedule_id]
             failures == call.consecutive_failures + 1
             disable == call.failure_threshold # <<>> /\ failures >= call.failure_threshold[1]
         IN  Assign(db, schedule_id,
                    [call EXCEPT !.consecutive_failures = failures,
                                 !.enabled = IF disable THEN FALSE ELSE @,
                                 !.last_updated = stamp])

\* utils.reset_failure_count(schedule_id): atomic; sets the count to 0.
reset_failure_count(db, schedule_id, stamp) ==
    IF schedule_id \notin DOMAIN db THEN db
    ELSE Assign(db, schedule_id,
                [db[schedule_id] EXCEPT !.consecutive_failures = 0, !.last_updated = stamp])

----------------------------------------------------------------------------
(* The task event handlers of FailureWatcher *)

\* AsyncResult(event_id).result: a plain value, or the AsyncResult of a child task
PlainValue == [is_async_result |-> FALSE, id |-> None]
ChildResult(task_id) == [is_async_result |-> TRUE, id |-> task_id]

\* What a handler leaves behind: the watch table, the store, the store calls
\* it made, what its pop returned, and the exception it raised (None: none).
Outcome(watches, db, calls, returned, raised) ==
    [watches |-> watches, db |-> db, store_calls |-> calls, popped |-> returned,
     raised |-> raised]

\* handle_succeeded_task() resetting whatever the flag says.
handle_succeeded_task_always_resets(watches, db, ev, return_value, time, stamp, store_up) ==
    IF "uuid" \notin DOMAIN ev
    THEN Outcome(watches, db, <<>>, <<None, None>>, "KeyError")
    ELSE LET p == pop(watches, ev["uuid"])
             schedule_id == p.returned[1]
             has_failure == p.returned[2]
         IN  IF schedule_id # None
             THEN IF return_value.is_async_result
                  THEN Outcome(add(p.watches, return_value.id, schedule_id, has_failure, time),
                               db, <<>>, p.returned, None)
                  ELSE Outcome(p.watches,
                               IF store_up THEN reset_failure_count(db, schedule_id, stamp) ELSE db,
                               <<(<<"reset_failure_count", schedule_id>>)>>, p.returned,
                               IF store_up THEN None ELSE "StoreError")
             ELSE Outcome(p.watches, db, <<>>, p.returned, None)

\* handle_succeeded_task() watching the child with the flag the schedule has
\* now instead of the parent's.
handle_succeeded_task_fresh_flag(watches, db, ev, return_value, time, stamp, store_up) ==
    IF "uuid" \notin DOMAIN ev
    THEN Outcome(watches, db, <<>>, <<None, None>>, "KeyError")
    ELSE LET p == pop(watches, ev["uuid"])
             schedule_id == p.returned[1]
             has_failure == p.returned[2]
         IN  IF schedule_id # None
             THEN IF return_value.is_async_result
                  THEN Outcome(add(p.watches, return_value.id, schedule_id,
                                   schedule_id \in DOMAIN db /\ db[schedule_id].consecutive_failures # 0,
                                   time),
                               db, <<>>, p.returned, None)
                  ELSE IF has_failure
                  THEN Outcome(p.watches,
                               IF store_up THEN reset_failure_count(db, schedule_id, stamp) ELSE db,
                               <<(<<"reset_failure_count", schedule_id>>)>>, p.returned,
                               IF store_up THEN None ELSE "StoreError")
                  ELSE Outcome(p.watches, db, <<>>, p.returned, None)
             ELSE Outcome(p.watches, db, <<>>, p.returned, None)

\* handle_succeeded_task(event). store_up: whether the store answers; a
\* store call made while it is down raises.
handle_succeeded_task(watches, db, ev, return_value, time, stamp, store_up) ==
    IF "uuid" \notin DOMAIN ev
    THEN Outcome(watches, db, <<>>, <<None, None>>, "KeyError")
    ELSE LET event_id == ev["uuid"]
             p == pop(watches, event_id)
             schedule_id == p.returned[1]
             has_failure == p.returned[2]
         IN  IF schedule_id # None
             THEN IF return_value.is_async_result
                  THEN Outcome(add(p.watches, return_value.id, schedule_id, has_failure, time),
                               db, <<>>, p.returned, None)
                  ELSE IF has_failure
                  THEN Outcome(p.watches,
                               IF store_up THEN reset_failure_count(db, schedule_id, stamp) ELSE db,
                               <<(<<"reset_failure_count", schedule_id>>)>>, p.returned,
                               IF store_up THEN None ELSE "StoreError")
                  ELSE Outcome(p.watches, db, <<>>, p.returned, None)
             ELSE Outcome(p.watches, db, <<>>, p.returned, None)

\* handle_failed_task() reading the watch with get() instead of pop().
handle_failed_task_keeps_watch(watches, db, ev, stamp, store_up) ==
    IF "uuid" \notin DOMAIN ev
    THEN Outcome(watches, db, <<>>, <<None, None>>, "KeyError")
    ELSE LET p == pop(watches, ev["uuid"])
             schedule_id == p.returned[1]
         IN  IF schedule_id # None
             THEN Outcome(watches,
                          IF store_up THEN increment_failure_count(db, schedule_id, stamp) ELSE db,
                          <<(<<"increment_failure_count", schedule_id>>)>>, p.returned,
                          IF store_up THEN None ELSE "StoreError")
             ELSE Outcome(p.watches, db, <<>>, p.returned, None)

\* handle_failed_task() counting a failure only when the schedule had none
\* at submit time, as the success handler resets only when it had one.
handle_failed_task_first_only(watches, db, ev, stamp, store_up) ==
    IF "uuid" \notin DOMAIN ev
    THEN Outcome(watches, db, <<>>, <<None, None>>, "KeyError")
    ELSE LET p == pop(watches, ev["uuid"])
             schedule_id == p.returned[1]
             has_failure == p.returned[2]
         IN  IF schedule_id # None /\ ~has_failure
             THEN Outcome(p.watches,
                          IF store_up THEN increment_failure_count(db, schedule_id, stamp) ELSE db,
                          <<(<<"increment_failure_count", schedule_id>>)>>, p.returned,
                          IF store_up THEN None ELSE "StoreError")
             ELSE Outcome(p.watches, db, <<>>, p.returned, None)

\* handle_failed_task() putting the watch back when the store call raises.
handle_failed_task_restores_watch(watches, db, ev, stamp, store_up) ==
    IF "uuid" \notin DOMAIN ev
    THEN Outcome(watches, db, <<>>, <<None, None>>, "KeyError")
    ELSE LET p == pop(watches, ev["uuid"])
             schedule_id == p.returned[1]
         IN  IF schedule_id # None
             THEN Outcome(IF store_up THEN p.watches ELSE watches,
                          IF store_up THEN increment_failure_count(db, schedule_id, stamp) ELSE db,
                          <<(<<"increment_failure_count", schedule_id>>)>>, p.returned,
                          IF store_up THEN None ELSE "StoreError")
             ELSE Outcome(p.watches, db, <<>>, p.returned, None)

\* handle_failed_task(event)
handle_failed_task(watches, db, ev, stamp, store_up) ==
    IF "uuid" \notin DOMAIN ev
    THEN Outcome(watches, db, <<>>, <<None, None>>, "KeyError")
    ELSE LET p == pop(watches, ev["uuid"])
             schedule_id == p.returned[1]
         IN  IF schedule_id # None
             THEN Outcome(p.watches,
                          IF store_up THEN increment_failure_count(db, schedule_id, stamp) ELSE db,
                          <<(<<"increment_failure_count", schedule_id>>)>>, p.returned,
                          IF store_up THEN None ELSE "StoreError")
             ELSE Outcome(p.watches, db, <<>>, p.returned, None)

----------------------------------------------------------------------------
(* Scheduler *)

\* call.as_schedule_entry(): a pulp ScheduleEntry keeps its ScheduledCall
Entry(name, call) == [name |-> name, is_ScheduleEntry |-> TRUE, _scheduled_call |-> <<call>>]

\* beat.ScheduleEntry(**dict(value, name=key)): a statically configured entry
StaticEntry(name) == [name |-> name, is_ScheduleEntry |-> FALSE, _scheduled_call |-> <<>>]

Max(S) == CHOOSE x \in S : \A y \in S : y <= x

\* The Scheduler attributes the schedule cache consists of
Cache(entries, count, timestamp) ==
    [_schedule |-> entries, _loaded_from_db_count |-> count,
     _most_recent_timestamp |-> timestamp]

\* setup_schedule() without the remaining_runs test.
setup_schedule_unfiltered(db) ==
    LET loaded == get_enabled(db)
        update_timestamps == {0} \cup {db[id].last_updated : id \in loaded}
    IN  Cache(<<[key \in StaticKeys \cup loaded |->
                    IF key \in loaded THEN Entry(key, db[key]) ELSE StaticEntry(key)]>>,
              Cardinality(loaded),
              Max(update_timestamps))

\* setup_schedule() counting the calls it ignores as loaded.
setup_schedule_counts_ignored(db) ==
    LET loaded == {id \in get_enabled(db) : db[id].remaining_runs # <<0>>}
        update_timestamps == {0} \cup {db[id].last_updated : id \in loaded}
    IN  Cache(<<[key \in StaticKeys \cup loaded |->
                    IF key \in loaded THEN Entry(key, db[key]) ELSE StaticEntry(key)]>>,
              Cardinality(get_enabled(db)),
              Max(update_timestamps))

\* setup_schedule(): the static entries, then every enabled call whose
\* remaining_runs is not 0.
setup_schedule(db) ==
    LET loaded == {id \in get_enabled(db) : db[id].remaining_runs # <<0>>}
        update_timestamps == {0} \cup {db[id].last_updated : id \in loaded}
    IN  Cache(<<[key \in StaticKeys \cup loaded |->
                    IF key \in loaded THEN Entry(key, db[key]) ELSE StaticEntry(key)]>>,
              Cardinality(loaded),
              Max(update_timestamps))

\* schedule_changed
schedule_changed(cache, db) ==
    \/ Cardinality(get_enabled(db)) # cache._loaded_from_db_count
    \/ Cardinality(get_updated_since(db, cache._most_recent_timestamp)) > 0

\* schedule: the cache after the property was read (the property returns its _schedule)
schedule(cache, db) ==
    IF cache._schedule = <<>> \/ schedule_changed(cache, db)
    THEN setup_schedule(db)
    ELSE cache

\* What add() leaves behind: the schedule cache, the watch table and the
\* exception it raised (None: none).
AddOutcome(c, watches, raised) == [cache |-> c, watches |-> watches, raised |-> raised]

\* add() as the superclass has it: entry = self.Entry(**kwargs), and
\* self.schedule[entry.name] = entry.
Scheduler_add_in_place(c, watches, kwargs) ==
    LET entries == IF c._schedule = <<>> THEN <<>> ELSE c._schedule[1]
    IN  AddOutcome([c EXCEPT !._schedule =
                                 <<Assign(entries, kwargs["name"], StaticEntry(kwargs["name"]))>>],
                   watches, None)

\* add(**kwargs): raise NotImplementedError
Scheduler_add(c, watches, kwargs) == AddOutcome(c, watches, "NotImplementedError")

\* apply_async() watching whatever the threshold is.
apply_async_watches_every_call(watches, entry, result_id, time) ==
    IF entry.is_ScheduleEntry
    THEN LET has_failure == entry._scheduled_call[1].consecutive_failures # 0
         IN  add(watches, result_id, entry.name, has_failure, time)
    ELSE watches

\* apply_async(entry): the watch table after the entry's task was queued as result_id
apply_async(watches, entry, result_id, time) ==
    IF /\ entry.is_ScheduleEntry
       /\ entry._scheduled_call[1].failure_threshold # <<>>
       /\ entry._scheduled_call[1].failure_threshold[1] # 0
    THEN LET has_failure == entry._scheduled_call[1].consecutive_failures # 0
         IN  add(watches, result_id, entry.name, has_failure, time)
    ELSE watches

\* tick(): the entries that are due (due: entry name -> the id its task is
\* queued under) are dispatched, then the watch table is trimmed.
RECURSIVE dispatch(_, _, _, _)
dispatch(watches, entries, due, time) ==
    IF DOMAIN due = {} THEN watches
    ELSE LET name == CHOOSE n \in DOMAIN due : TRUE
         IN  dispatch(apply_async(watches, entries[name], due[name], time),
                      entries, Restrict(due, DOMAIN due \ {name}), time)

\* tick() returning what the superclass returned, without the trim.
tick_without_trim(watches, entries, due, time) == dispatch(watches, entries, due, time)

\* tick(): super(Scheduler, self).tick(), then self._failure_watcher.trim()
tick(watches, entries, due, time) == trim(dispatch(watches, entries, due, time), time)

----------------------------------------------------------------------------
(* WorkerWatcher *)

\* A hostname node@host is the pair <<node, host>>.
RESOURCE_MANAGER_PREFIX == "resource_manager"

Hostnames == {<<"reserved_resource_worker-0", "h">>, <<RESOURCE_MANAGER_PREFIX, "h">>}

\* The hostnames of the workers of a deployment with two workers.
AllHostnames == Hostnames \cup {<<"reserved_resource_worker-1", "h">>}

\* _is_resource_manager() matching the prefix against the host part.
_is_resource_manager_by_host(ev) == ev["hostname"][2] = RESOURCE_MANAGER_PREFIX

\* _is_resource_manager(event): re.match('^resource_manager@', event['hostname'])
_is_resource_manager(ev) == ev["hostname"][1] = RESOURCE_MANAGER_PREFIX

\* datetime.utcfromtimestamp(seconds): a naive datetime, as days and seconds
\* since the epoch
utcfromtimestamp(seconds) == [days |-> seconds \div 86400, seconds |-> seconds % 86400]

\* _parse_and_log_event(event)
_parse_and_log_event(ev) ==
    [timestamp |-> utcfromtimestamp(ev["timestamp"]),
     type |-> ev["type"],
     worker_name |-> ev["hostname"]]

AvailableQueue(last_heartbeat) == [last_heartbeat |-> last_heartbeat, num_reservations |-> 0]

RESOURCE_MANAGER_QUEUE == "resource_manager"

\* _delete_queue.apply_async(args=(worker_name,), queue=RESOURCE_MANAGER_QUEUE)
DeleteQueueTask(worker_name) ==
    [task |-> "_delete_queue", args |-> <<worker_name>>, queue |-> RESOURCE_MANAGER_QUEUE]

\* What a worker handler leaves behind: the AvailableQueue records, the
\* _delete_queue tasks, and the exception it raised (None: none).
WorkerOutcome(queues, tasks, raised) == [queues |-> queues, tasks |-> tasks, raised |-> raised]

WorkerEventKeys == {"timestamp", "type", "hostname"}

\* handle_worker_heartbeat() saving a new AvailableQueue over the one it found.
handle_worker_heartbeat_saves_new(queues, tasks, ev, store_up) ==
    IF ~(WorkerEventKeys \subseteq DOMAIN ev)
    THEN WorkerOutcome(queues, tasks, "KeyError")
    ELSE LET event_info == _parse_and_log_event(ev)
         IN  IF _is_resource_manager(ev)
             THEN WorkerOutcome(queues, tasks, None)
             ELSE IF ~store_up
             THEN WorkerOutcome(queues, tasks, "StoreError")
             ELSE WorkerOutcome(Assign(queues, event_info.worker_name,
                                       AvailableQueue(event_info.timestamp)),
                                tasks, None)

\* handle_worker_heartbeat(event)
handle_worker_heartbeat(queues, tasks, ev, store_up) ==
    IF ~(WorkerEventKeys \subseteq DOMAIN ev)
    THEN WorkerOutcome(queues, tasks, "KeyError")
    ELSE LET event_info == _parse_and_log_event(ev)
         IN  IF _is_resource_manager(ev)
             THEN WorkerOutcome(queues, tasks, None)
             ELSE IF ~store_up
             THEN WorkerOutcome(queues, tasks, "StoreError")
             ELSE IF event_info.worker_name \in DOMAIN queues
             THEN WorkerOutcome([queues EXCEPT ![event_info.worker_name].last_heartbeat =
                                                   event_info.timestamp],
                                tasks, None)
             ELSE WorkerOutcome(Assign(queues, event_info.worker_name,
                                       AvailableQueue(event_info.timestamp)),
                                tasks, None)

\* handle_worker_offline() deleting the worker's record itself as well.
handle_worker_offline_deletes(queues, tasks, ev, queue_up) ==
    IF ~(WorkerEventKeys \subseteq DOMAIN ev)
    THEN WorkerOutcome(queues, tasks, "KeyError")
    ELSE LET event_info == _parse_and_log_event(ev)
         IN  IF _is_resource_manager(ev)
             THEN WorkerOutcome(queues, tasks, None)
             ELSE IF ~queue_up
             THEN WorkerOutcome(queues, tasks, "BrokerError")
             ELSE WorkerOutcome(Restrict(queues, DOMAIN queues \ {event_info.worker_name}),
                                Append(tasks, DeleteQueueTask(event_info.worker_name)),
                                None)

\* handle_worker_offline(event); queue_up: whether _delete_queue.apply_async
\* reaches the broker
handle_worker_offline(queues, tasks, ev, queue_up) ==
    IF ~(WorkerEventKeys \subseteq DOMAIN ev)
    THEN WorkerOutcome(queues, tasks, "KeyError")
    ELSE LET event_info == _parse_and_log_event(ev)
         IN  IF _is_resource_manager(ev)
             THEN WorkerOutcome(queues, tasks, None)
             ELSE IF ~queue_up
             THEN WorkerOutcome(queues, tasks, "BrokerError")
             ELSE WorkerOutcome(queues, Append(tasks, DeleteQueueTask(event_info.worker_name)),
                                None)

----------------------------------------------------------------------------
(* WorkerTimeoutMonitor *)

WORKER_TIMEOUT_SECONDS == 300

FREQUENCY == 60

\* datetime.utcnow(), for the epoch clock at time
utcnow(time) == utcfromtimestamp(time)

\* datetime - timedelta(seconds=seconds)
minus_timedelta(dt, seconds) ==
    LET total == dt.days * 86400 + dt.seconds - seconds
    IN  [days |-> total \div 86400, seconds |-> total % 86400]

\* datetime < datetime
earlier(a, b) == a.days < b.days \/ (a.days = b.days /\ a.seconds < b.seconds)

\* filter_available_queues(Criteria(filters={'last_heartbeat': {'$lt': t}})):
\* the names of the records it finds
filter_available_queues_lt(queues, t) ==
    {name \in DOMAIN queues : earlier(queues[name].last_heartbeat, t)}

\* The lists with the elements of S, once each.
Lists(S) == {l \in [1..Cardinality(S) -> S] : {l[i] : i \in DOMAIN l} = S}

\* check_workers() taking the records that are FREQUENCY old for missing.
missing_workers_after_frequency(queues, time) ==
    filter_available_queues_lt(queues, minus_timedelta(utcnow(time), FREQUENCY))

\* check_workers(): oldest_heartbeat_time and the workers the query finds
\* check_workers() with a query that finds no record.
missing_workers_none(queues, time) == {}

missing_workers(queues, time) ==
    LET oldest_heartbeat_time == minus_timedelta(utcnow(time), WORKER_TIMEOUT_SECONDS)
    IN  filter_available_queues_lt(queues, oldest_heartbeat_time)

\* check_workers(), for the worker_list the query returned: the store
\* answers or the query raises; the first sent _delete_queue.apply_async
\* calls reach the broker and the next one, if there is one, raises.
check_workers(queues, tasks, store_up, worker_list, sent) ==
    IF ~store_up
    THEN WorkerOutcome(queues, tasks, "StoreError")
    ELSE WorkerOutcome(queues,
                       tasks \o [i \in 1..sent |-> DeleteQueueTask(worker_list[i])],
                       IF sent < Len(worker_list) THEN "BrokerError" ELSE None)

\* WorkerTimeoutMonitor.run() with an except clause for the store's errors only.
timeout_run_catches_store_errors(exception) == exception = "StoreError"

\* WorkerTimeoutMonitor.run(): except Exception
timeout_run_catches(exception) == exception \in {"StoreError", "BrokerError"}

----------------------------------------------------------------------------
(* Scheduler.__init__ and the threads *)

EventTypes == {"task-failed", "task-succeeded", "worker-heartbeat", "worker-offline"}

\* A started thread: threading.Thread(target=...), daemon = True, start();
\* self is the Scheduler whose monitor the target belongs to.
Thread(self, target) == [self |-> self, target |-> target, daemon |-> TRUE]

\* spawn_pulp_monitor_threads(): the threads of the process after it
spawn_pulp_monitor_threads(self, running) ==
    running \o <<Thread(self, "_event_monitor.run"),
                 Thread(self, "_worker_timeout_monitor.run")>>

\* What __init__() sets on the instance; its FailureWatcher holds the empty
\* watch table.
Attributes(lazy) ==
    [lazy |-> lazy,
     _schedule |-> None,
     _failure_watcher |-> <<>>,
     _event_monitor |-> "EventMonitor",
     _worker_timeout_monitor |-> "WorkerTimeoutMonitor",
     _loaded_from_db_count |-> 0]

\* __init__() spawning whatever lazy says.
Scheduler_init_always_spawns(self, kwargs, running) ==
    [instance |-> Attributes(IF "lazy" \in DOMAIN kwargs THEN kwargs["lazy"] ELSE TRUE),
     threads |-> spawn_pulp_monitor_threads(self, running)]

\* __init__(*args, **kwargs): the instance it builds and the threads of the
\* process after it.
Scheduler_init(self, kwargs, running) ==
    LET lazy == IF "lazy" \in DOMAIN kwargs THEN kwargs["lazy"] ELSE TRUE
    IN  [instance |-> Attributes(lazy),
         threads |-> IF lazy = FALSE
                     THEN spawn_pulp_monitor_threads(self, running)
                     ELSE running]

\* The exceptions the steps of the event monitor raise, all of them
\* subclasses of Exception.
Exceptions == {"KeyError", "StoreError", "BrokerError"}

\* EventMonitor.run() with an except clause for the broker's errors only.
run_catches_broker_errors(exception) == exception = "BrokerError"

\* EventMonitor.run(): except Exception
run_catches(exception) == exception \in Exceptions

----------------------------------------------------------------------------
(* The states the specifications start in *)

NoEvent == [type |-> None]

InitialStores ==
    {db \in [ScheduleIds -> {ScheduledCall(TRUE, <<>>, f, t, 1) : f \in {0, 1}, t \in Thresholds}] :
        /\ db["s1"].failure_threshold # <<>>
        /\ db["s2"].failure_threshold = <<>>
        /\ \A id \in ScheduleIds :
            db[id].failure_threshold # <<>> =>
                db[id].consecutive_failures < db[id].failure_threshold[1]}

\* Nothing was done yet: no tick, no event, no trim under way.
Fresh ==
    /\ _watches = <<>>
    /\ store_clock = 1
    /\ _schedule = <<>>
    /\ _loaded_from_db_count = 0
    /\ _most_recent_timestamp = 0
    /\ event = NoEvent
    /\ result = PlainValue
    /\ popped = <<None, None>>
    /\ store_calls = <<>>
    /\ step = "other"
    /\ dispatched = <<>>
    /\ trimmed = <<>>
    /\ trim_state = <<>>
    /\ log = <<>>
    /\ caught = None
    /\ available_queues = <<>>
    /\ delete_queue_tasks = <<>>
    /\ propagated = None
    /\ wtCaught = None
    /\ wtLog = <<>>

\* The real instance was constructed and its event monitor is capturing,
\* over a store that holds some schedules already.
Init ==
    /\ Fresh
    /\ now = 0
    /\ wtPc = "sleep"
    /\ scheduled_calls \in InitialStores
    /\ instances = <<Scheduler_init(1, [lazy |-> FALSE], <<>>).instance>>
    /\ threads = Scheduler_init(1, [lazy |-> FALSE], <<>>).threads
    /\ emPc = "capture"
    /\ handlers = EventTypes
    /\ wakeup = TRUE

\* The process starts: no Scheduler was constructed yet. The store holds a
\* schedule that has failed once and one without a threshold.
LoopInit ==
    /\ Fresh
    /\ now = 0
    /\ wtPc = "none"
    /\ scheduled_calls = [id \in ScheduleIds |->
                             IF id = "s1" THEN ScheduledCall(TRUE, <<>>, 1, <<2>>, 1)
                             ELSE ScheduledCall(TRUE, <<>>, 0, <<>>, 1)]
    /\ instances = <<>>
    /\ threads = <<>>
    /\ emPc = "none"
    /\ handlers = {}
    /\ wakeup = FALSE

----------------------------------------------------------------------------
(* The steps *)

cache == Cache(_schedule, _loaded_from_db_count, _most_recent_timestamp)

NoHandlerStep ==
    /\ event' = NoEvent
    /\ result' = PlainValue
    /\ popped' = <<None, None>>
    /\ store_calls' = <<>>
    /\ propagated' = None

NoTickStep == dispatched' = <<>> /\ trimmed' = <<>>

\* The beat service runs the instance constructed with lazy=False.
RealInstance == \E i \in DOMAIN instances : instances[i].lazy = FALSE

\* The due sets of one beat iteration: nothing is due, or one entry is and
\* its task is queued under an id that is not in use.
DueSets(entries) ==
    {<<>>} \cup {[n \in {name} |-> id] : name \in DOMAIN entries, id \in TaskIds \ DOMAIN _watches}

\* The beat thread runs one tick.
Tick ==
    /\ RealInstance
    /\ trim_state = <<>>
    /\ LET current == schedule(cache, scheduled_calls)
       IN  \E due \in DueSets(current._schedule[1]) :
               /\ _schedule' = current._schedule
               /\ _loaded_from_db_count' = current._loaded_from_db_count
               /\ _most_recent_timestamp' = current._most_recent_timestamp
               /\ _watches' = tick(_watches, current._schedule[1], due, now)
               /\ step' = "tick"
               /\ dispatched' = due
               /\ LET queued == dispatch(_watches, current._schedule[1], due, now)
                  IN  trimmed' = Restrict(queued, DOMAIN queued \ DOMAIN _watches')
               /\ NoHandlerStep
               /\ UNCHANGED <<now, storeVars, processVars, monitorVars, trimVars, workerVars,
                              timeoutVars>>

\* An exception leaves monitor_events(): the connection's scope ends, and
\* run() catches the exception or the thread ends with it.
Raise(exception) ==
    /\ Len(log) < MaxErrors
    /\ emPc' = IF run_catches(exception) THEN "except" ELSE "dead"
    /\ caught' = exception
    /\ handlers' = {}
    /\ wakeup' = FALSE
    /\ UNCHANGED log

\* What a handler did becomes the state.
Handled(ev, return_value, r) ==
    /\ emPc = "capture"
    /\ ev.type \in handlers
    /\ r.db # scheduled_calls => store_clock < MaxStamp
    /\ _watches' = r.watches
    /\ scheduled_calls' = r.db
    /\ store_clock' = IF r.db # scheduled_calls THEN store_clock + 1 ELSE store_clock
    /\ event' = ev
    /\ result' = return_value
    /\ popped' = r.popped
    /\ store_calls' = r.store_calls
    /\ propagated' = r.raised
    /\ step' = "event"
    /\ NoTickStep
    /\ IF r.raised = None THEN UNCHANGED monitorVars ELSE Raise(r.raised)
    /\ UNCHANGED <<now, schedulerVars, processVars, trimVars, workerVars, timeoutVars>>

TaskEvent(type, task_id) == [type |-> type, uuid |-> task_id]

\* An event without the uuid key
Malformed(type) == [type |-> type]

Results(task_id) == {PlainValue} \cup {ChildResult(child) : child \in TaskIds \ {task_id}}

\* The event monitor handles a task-succeeded event.
TaskSucceeded ==
    \E task_id \in TaskIds : \E return_value \in Results(task_id) :
        LET ev == TaskEvent("task-succeeded", task_id)
        IN  Handled(ev, return_value,
                    handle_succeeded_task(_watches, scheduled_calls, ev, return_value,
                                          now, store_clock + 1, TRUE))

\* The event monitor handles a task-failed event.
TaskFailed ==
    \E task_id \in TaskIds :
        LET ev == TaskEvent("task-failed", task_id)
        IN  Handled(ev, PlainValue,
                    handle_failed_task(_watches, scheduled_calls, ev, store_clock + 1, TRUE))

\* Time passes: a second, or a whole ttl.
AdvanceTime ==
    /\ \/ (now % ttl) < MaxSecs /\ now' = now + 1
       \/ (now \div ttl) < MaxJumps /\ now' = now + ttl
    /\ step' = "other"
    /\ NoTickStep
    /\ NoHandlerStep
    /\ UNCHANGED <<watcherVars, storeVars, schedulerVars, processVars, monitorVars, trimVars, workerVars,
                   timeoutVars>>

\* What a writer of the store did becomes the state.
Written(db, stamped) ==
    /\ stamped => store_clock < MaxStamp
    /\ scheduled_calls' = db
    /\ store_clock' = IF stamped THEN store_clock + 1 ELSE store_clock
    /\ step' = "other"
    /\ NoTickStep
    /\ NoHandlerStep
    /\ UNCHANGED <<now, watcherVars, schedulerVars, processVars, monitorVars, trimVars, workerVars,
                   timeoutVars>>

\* A client of the store creates an enabled schedule.
StoreAdd ==
    \E id \in ScheduleIds \ DOMAIN scheduled_calls :
        \E remaining_runs \in RemainingRuns, failure_threshold \in Thresholds :
            Written(Assign(scheduled_calls, id,
                           ScheduledCall(TRUE, remaining_runs, 0, failure_threshold,
                                         store_clock + 1)),
                    TRUE)

\* A client of the store deletes a schedule.
StoreRemove ==
    \E id \in DOMAIN scheduled_calls :
        Written(Restrict(scheduled_calls, DOMAIN scheduled_calls \ {id}), FALSE)

\* A client of the store updates a schedule: enables or disables it, sets
\* its remaining runs, or only touches it.
StoreUpdate ==
    \E id \in DOMAIN scheduled_calls :
        \E enabled \in BOOLEAN, remaining_runs \in RemainingRuns :
            Written(Assign(scheduled_calls, id,
                           [scheduled_calls[id] EXCEPT !.enabled = enabled,
                                                       !.remaining_runs = remaining_runs,
                                                       !.last_updated = store_clock + 1]),
                    TRUE)

\* The entries callers try to add in place
AddKwargs == {[name |-> name] : name \in ScheduleIds \cup StaticKeys}

\* A caller calls add() on the real instance.
Add ==
    /\ RealInstance
    /\ \E kwargs \in AddKwargs :
        LET r == Scheduler_add(cache, _watches, kwargs)
        IN  /\ _schedule' = r.cache._schedule
            /\ _loaded_from_db_count' = r.cache._loaded_from_db_count
            /\ _most_recent_timestamp' = r.cache._most_recent_timestamp
            /\ _watches' = r.watches
            /\ propagated' = r.raised
    /\ step' = "add"
    /\ event' = NoEvent
    /\ result' = PlainValue
    /\ popped' = <<None, None>>
    /\ store_calls' = <<>>
    /\ NoTickStep
    /\ UNCHANGED <<now, storeVars, processVars, monitorVars, trimVars, workerVars,
                   timeoutVars>>

\* The failure policy: the beat thread ticks, the event monitor handles task
\* events, callers try add(), time passes.
Next ==
    \/ Tick
    \/ Add
    \/ TaskSucceeded
    \/ TaskFailed
    \/ AdvanceTime

Spec == Init /\ [][Next]_vars

\* The beat service calls tick() again and again, and time passes.
FairSpec == Spec /\ WF_vars(Tick) /\ WF_vars(AdvanceTime)

\* The schedule cache: the beat thread ticks, clients write the store.
CacheNext ==
    \/ Tick
    \/ StoreAdd
    \/ StoreRemove
    \/ StoreUpdate

CacheSpec == Init /\ [][CacheNext]_vars

----------------------------------------------------------------------------
(* The process from its start: the beat framework constructs Schedulers,   *)
(* the event monitor thread loops, events arrive well-formed or not, the   *)
(* store answers or not, the broker fails.                                 *)

NoStep == step' = "other" /\ NoTickStep /\ NoHandlerStep

\* The keyword arguments the beat framework constructs a Scheduler with. It
\* constructs any number of lazy instances, and the real one once.
Kwargs == {<<>>, [lazy |-> TRUE], [lazy |-> FALSE]}

Construct ==
    \E kwargs \in Kwargs :
        /\ Len(instances) < MaxInstances
        /\ kwargs = [lazy |-> FALSE] => ~RealInstance
        /\ LET made == Scheduler_init(Len(instances) + 1, kwargs, threads)
           IN  /\ instances' = Append(instances, made.instance)
               /\ threads' = made.threads
               /\ emPc' = IF emPc = "none" /\ made.threads # threads THEN "run" ELSE emPc
               /\ wtPc' = IF wtPc = "none" /\ made.threads # threads THEN "sleep" ELSE wtPc
        /\ NoStep
        /\ UNCHANGED <<now, watcherVars, storeVars, schedulerVars, handlers, wakeup, log,
                       caught, trimVars, workerVars, wtCaught, wtLog>>

\* monitor_events(): a connection, a Receiver with the four handlers, and
\* capture(limit=None, timeout=None, wakeup=True).
MonitorEvents ==
    /\ emPc = "run"
    /\ emPc' = "capture"
    /\ handlers' = EventTypes
    /\ wakeup' = TRUE
    /\ NoStep
    /\ UNCHANGED <<now, watcherVars, storeVars, schedulerVars, processVars, log, caught,
                   trimVars, workerVars, timeoutVars>>

\* The connection or the consumer fails.
BrokerError ==
    /\ emPc \in {"run", "capture"}
    /\ Raise("BrokerError")
    /\ NoStep
    /\ UNCHANGED <<now, watcherVars, storeVars, schedulerVars, processVars, trimVars, workerVars,
                   timeoutVars>>

\* run(): _logger.error(e), and around the loop again.
LogAndReenter ==
    /\ emPc = "except"
    /\ log' = Append(log, caught)
    /\ caught' = None
    /\ emPc' = "run"
    /\ NoStep
    /\ UNCHANGED <<now, watcherVars, storeVars, schedulerVars, processVars, handlers, wakeup,
                   trimVars, workerVars, timeoutVars>>

TaskEvents(type) == {TaskEvent(type, task_id) : task_id \in TaskIds} \cup {Malformed(type)}

\* The event monitor handles a task-succeeded event, whatever it holds and
\* whether the store answers or not.
TaskSucceededOrRaised ==
    \E ev \in TaskEvents("task-succeeded"), store_up \in BOOLEAN :
        \E return_value \in Results(IF "uuid" \in DOMAIN ev THEN ev["uuid"] ELSE None) :
            Handled(ev, return_value,
                    handle_succeeded_task(_watches, scheduled_calls, ev, return_value,
                                          now, store_clock + 1, store_up))

\* The event monitor handles a task-failed event, likewise.
TaskFailedOrRaised ==
    \E ev \in TaskEvents("task-failed"), store_up \in BOOLEAN :
        Handled(ev, PlainValue,
                handle_failed_task(_watches, scheduled_calls, ev, store_clock + 1, store_up))

WorkerEvent(type, hostname) == [type |-> type, hostname |-> hostname, timestamp |-> now]

WorkerEvents(type) == {WorkerEvent(type, hostname) : hostname \in Hostnames} \cup {Malformed(type)}

\* What a worker handler did becomes the state.
WorkerHandled(ev, r) ==
    /\ emPc = "capture"
    /\ ev.type \in handlers
    /\ Len(r.tasks) <= MaxDeletes
    /\ available_queues' = r.queues
    /\ delete_queue_tasks' = r.tasks
    /\ event' = ev
    /\ result' = PlainValue
    /\ popped' = <<None, None>>
    /\ store_calls' = <<>>
    /\ propagated' = r.raised
    /\ step' = "worker"
    /\ NoTickStep
    /\ IF r.raised = None THEN UNCHANGED monitorVars ELSE Raise(r.raised)
    /\ UNCHANGED <<now, watcherVars, storeVars, schedulerVars, processVars, trimVars,
                   timeoutVars>>

\* The event monitor handles a worker-heartbeat event.
WorkerHeartbeatOrRaised ==
    \E ev \in WorkerEvents("worker-heartbeat"), store_up \in BOOLEAN :
        WorkerHandled(ev, handle_worker_heartbeat(available_queues, delete_queue_tasks, ev,
                                                  store_up))

\* The event monitor handles a worker-offline event.
WorkerOfflineOrRaised ==
    \E ev \in WorkerEvents("worker-offline"), queue_up \in BOOLEAN :
        WorkerHandled(ev, handle_worker_offline(available_queues, delete_queue_tasks, ev,
                                                queue_up))

LoopNext ==
    \/ Construct
    \/ Tick
    \/ MonitorEvents
    \/ BrokerError
    \/ TaskSucceededOrRaised
    \/ TaskFailedOrRaised
    \/ WorkerHeartbeatOrRaised
    \/ WorkerOfflineOrRaised
    \/ LogAndReenter

LoopSpec == LoopInit /\ [][LoopNext]_vars

\* The event monitor thread is scheduled again and again.
FairLoopSpec == LoopSpec /\ WF_vars(LogAndReenter)

----------------------------------------------------------------------------
(* The workers: the event monitor handles their events, the worker timeout *)
(* monitor sweeps, the resource manager runs the _delete_queue tasks, the  *)
(* dispatcher reserves.                                                    *)

\* The process runs since shortly before midnight UTC of the second day of
\* the epoch, over a store with one schedule.
WorkerStart == 86400 - 4 * FREQUENCY

WorkerInit ==
    /\ Fresh
    /\ now = WorkerStart
    /\ wtPc = "sleep"
    /\ scheduled_calls = [id \in {"s1"} |-> ScheduledCall(TRUE, <<>>, 0, <<>>, 1)]
    /\ instances = <<Scheduler_init(1, [lazy |-> FALSE], <<>>).instance>>
    /\ threads = Scheduler_init(1, [lazy |-> FALSE], <<>>).threads
    /\ emPc = "capture"
    /\ handlers = EventTypes
    /\ wakeup = TRUE

\* The event monitor handles a worker-heartbeat event of one of the hosts.
WorkerHeartbeat ==
    \E hostname \in AllHostnames :
        LET ev == WorkerEvent("worker-heartbeat", hostname)
        IN  WorkerHandled(ev, handle_worker_heartbeat(available_queues, delete_queue_tasks,
                                                      ev, TRUE))

\* The event monitor handles a worker-offline event of one of the hosts.
WorkerOffline ==
    \E hostname \in AllHostnames :
        LET ev == WorkerEvent("worker-offline", hostname)
        IN  WorkerHandled(ev, handle_worker_offline(available_queues, delete_queue_tasks,
                                                    ev, TRUE))

\* run(): time.sleep(self.FREQUENCY)
Sleep ==
    /\ wtPc = "sleep"
    /\ now < WorkerStart + MaxSleeps * FREQUENCY
    /\ now' = now + FREQUENCY
    /\ wtPc' = "check"
    /\ NoStep
    /\ UNCHANGED <<watcherVars, storeVars, schedulerVars, processVars, monitorVars, trimVars,
                   workerVars, wtCaught, wtLog>>

\* run(): check_workers(), which returns or raises into the except clause.
CheckWorkers ==
    /\ wtPc = "check"
    /\ \E store_up \in BOOLEAN :
       \E worker_list \in Lists(missing_workers(available_queues, now)) :
       \E sent \in 0..Len(worker_list) :
           LET r == check_workers(available_queues, delete_queue_tasks, store_up,
                                  worker_list, sent)
           IN  /\ Len(r.tasks) <= MaxDeletes
               /\ r.raised # None => Len(wtLog) < MaxErrors
               /\ available_queues' = r.queues
               /\ delete_queue_tasks' = r.tasks
               /\ propagated' = r.raised
               /\ wtCaught' = r.raised
               /\ wtPc' = IF r.raised = None THEN "sleep"
                          ELSE IF timeout_run_catches(r.raised) THEN "except"
                          ELSE "dead"
    /\ step' = "sweep"
    /\ event' = NoEvent
    /\ result' = PlainValue
    /\ popped' = <<None, None>>
    /\ store_calls' = <<>>
    /\ NoTickStep
    /\ UNCHANGED <<now, watcherVars, storeVars, schedulerVars, processVars, monitorVars,
                   trimVars, wtLog>>

\* run(): _logger.error(e), and around the loop again.
LogAndSleep ==
    /\ wtPc = "except"
    /\ wtLog' = Append(wtLog, wtCaught)
    /\ wtCaught' = None
    /\ wtPc' = "sleep"
    /\ NoStep
    /\ UNCHANGED <<now, watcherVars, storeVars, schedulerVars, processVars, monitorVars,
                   trimVars, workerVars>>

\* The resource manager runs the oldest _delete_queue task: the worker's
\* record is removed.
DeleteQueue ==
    /\ delete_queue_tasks # <<>>
    /\ available_queues' = Restrict(available_queues,
                                    DOMAIN available_queues \ {Head(delete_queue_tasks).args[1]})
    /\ delete_queue_tasks' = Tail(delete_queue_tasks)
    /\ step' = "delete_queue"
    /\ NoTickStep
    /\ NoHandlerStep
    /\ UNCHANGED <<now, watcherVars, storeVars, schedulerVars, processVars, monitorVars,
                   trimVars, timeoutVars>>

\* The dispatcher reserves a worker or releases it.
Reserve ==
    /\ \E name \in DOMAIN available_queues : \E n \in 0..MaxReservations :
        /\ n # available_queues[name].num_reservations
        /\ available_queues' = [available_queues EXCEPT ![name].num_reservations = n]
    /\ NoStep
    /\ UNCHANGED <<now, watcherVars, storeVars, schedulerVars, processVars, monitorVars,
                   trimVars, delete_queue_tasks, timeoutVars>>

WorkerNext ==
    \/ WorkerHeartbeat
    \/ WorkerOffline
    \/ Sleep
    \/ CheckWorkers
    \/ LogAndSleep
    \/ DeleteQueue
    \/ Reserve

WorkerSpec == WorkerInit /\ [][WorkerNext]_vars

\* The worker timeout monitor thread is scheduled again and again.
FairWorkerSpec == WorkerSpec /\ WF_vars(LogAndSleep)

\* The worker events, the timeout monitor and the resource manager, without
\* the dispatcher.
SweepNext ==
    \/ WorkerHeartbeat
    \/ WorkerOffline
    \/ Sleep
    \/ CheckWorkers
    \/ LogAndSleep
    \/ DeleteQueue

SweepSpec == WorkerInit /\ [][SweepNext]_vars

\* The timeout monitor's loop keeps running: it sleeps, sweeps, and logs
\* what a sweep raised. Nothing blocks check_workers(); the step waits
\* only while the bounded queue of the resource manager is full, so the
\* fairness of the sweep is strong. The resource manager works through its
\* queue.
FairSweepSpec ==
    SweepSpec /\ WF_vars(Sleep) /\ SF_vars(CheckWorkers) /\ WF_vars(LogAndSleep)
              /\ WF_vars(DeleteQueue)

----------------------------------------------------------------------------
(* Claims *)

Reset(schedule_id) == <<"reset_failure_count", schedule_id>>
Increment(schedule_id) == <<"increment_failure_count", schedule_id>>

\* The last step handled an event of this type for a task that was watched.
WatchedEvent(type) == event.type = type /\ popped[1] # None

\* C1: right after a tick's trim() at time t every watch left has
\* timestamp >= t - ttl, and every watch the trim removed had
\* timestamp < t - ttl.
TrimTtlBound ==
    step = "tick" =>
        /\ \A task_id \in DOMAIN _watches : _watches[task_id].timestamp >= now - ttl
        /\ \A task_id \in DOMAIN trimmed : trimmed[task_id].timestamp < now - ttl

\* C1 witness: a trim removed a watch older than ttl and kept one exactly ttl old.
TrimTtlBoundWitness ==
    /\ step = "tick"
    /\ trimmed # <<>>
    /\ \E task_id \in DOMAIN _watches : _watches[task_id].timestamp = now - ttl

FailedInv ==
    /\ WatchedEvent("task-failed") =>
           /\ store_calls = <<Increment(popped[1])>>
           /\ event["uuid"] \notin DOMAIN _watches
    /\ (step = "event" /\ popped[1] = None) => store_calls = <<>>

SecondEvent ==
    (WatchedEvent("task-failed") /\ step' = "event" /\ event'["uuid"] = event["uuid"]) =>
        store_calls' = <<>>

FailedCountedOnce == []FailedInv /\ [][SecondEvent]_vars

\* C3 witness: a task-failed event of a watched task whose flag was set.
FailedCountedOnceWitness ==
    /\ WatchedEvent("task-failed")
    /\ popped[2]
    /\ store_calls = <<Increment(popped[1])>>
    /\ _watches = <<>>

\* C4 as stated: a count never exceeds a non-null failure_threshold.
FailuresWithinThreshold ==
    \A id \in DOMAIN scheduled_calls :
        scheduled_calls[id].failure_threshold # <<>> =>
            scheduled_calls[id].consecutive_failures <= scheduled_calls[id].failure_threshold[1]

\* C4 amended: a step raises a count by at most one; the task-failed event
\* of a watched task raises its schedule's count by exactly one; and the
\* increment that brings the count to the threshold or above leaves the
\* schedule disabled.
FailureCountStep ==
    \A id \in DOMAIN scheduled_calls \cap DOMAIN scheduled_calls' :
        LET before == scheduled_calls[id]
            after == scheduled_calls'[id]
        IN  /\ after.consecutive_failures <= before.consecutive_failures + 1
            /\ (event'.type = "task-failed" /\ popped'[1] = id) =>
                   after.consecutive_failures = before.consecutive_failures + 1
            /\ (/\ after.consecutive_failures > before.consecutive_failures
                /\ after.failure_threshold # <<>>
                /\ after.consecutive_failures >= after.failure_threshold[1]) => ~after.enabled

FailuresDisableAtThreshold == [][FailureCountStep]_vars

\* C4 witness: a failure of a run that was in flight when its schedule was
\* disabled took the count past the threshold.
FailuresPastThresholdWitness ==
    /\ WatchedEvent("task-failed")
    /\ popped[1] \in DOMAIN scheduled_calls
    /\ LET call == scheduled_calls[popped[1]]
       IN  /\ call.failure_threshold # <<>>
           /\ call.consecutive_failures > call.failure_threshold[1]
           /\ ~call.enabled

\* C7: a task-succeeded event of a watched task whose result is a child
\* task moves the watch to the child's id with the schedule id and the flag
\* it had, leaves the parent unwatched and makes no store call.
ChainMovesWatch ==
    (WatchedEvent("task-succeeded") /\ result.is_async_result) =>
        /\ result.id \in DOMAIN _watches
        /\ _watches[result.id].schedule_id = popped[1]
        /\ _watches[result.id].has_failure = popped[2]
        /\ event["uuid"] \notin DOMAIN _watches
        /\ store_calls = <<>>

\* C7 witness: the watch of a schedule that had a failure moved to the child.
ChainMovesWatchWitness ==
    /\ WatchedEvent("task-succeeded")
    /\ result.is_async_result
    /\ popped[2]
    /\ result.id \in DOMAIN _watches
    /\ _watches[result.id].has_failure

\* The ids of the store's calls the schedule cache holds entries of.
LoadedIds == {name \in DOMAIN _schedule[1] : _schedule[1][name].is_ScheduleEntry}

\* The store changed since the cache was loaded: a loaded call is no longer
\* enabled (removed or disabled), a loaded call was updated, or an enabled
\* call with runs remaining is not loaded (added).
StoreChangedSinceLoad ==
    \E id \in ScheduleIds :
        \/ id \in LoadedIds /\ id \notin get_enabled(scheduled_calls)
        \/ /\ id \in LoadedIds /\ id \in DOMAIN scheduled_calls
           /\ scheduled_calls[id].last_updated
                  # _schedule[1][id]._scheduled_call[1].last_updated
        \/ /\ id \notin LoadedIds /\ id \in get_enabled(scheduled_calls)
           /\ scheduled_calls[id].remaining_runs # <<0>>

\* C5: whenever the store's enabled calls differ from what setup_schedule()
\* loaded last, schedule_changed is true, so that no tick leaves the cache
\* behind the store.
ChangeDetected ==
    _schedule # <<>> =>
        /\ StoreChangedSinceLoad => schedule_changed(cache, scheduled_calls)
        /\ step = "tick" => ~StoreChangedSinceLoad

\* C6: no entry of _schedule is the entry of a ScheduledCall with
\* remaining_runs = 0, so no tick dispatches one; and a call that is enabled
\* with remaining_runs = 0 in the store is no key of _schedule when a tick
\* has run, and is not dispatched by it.
NoExhaustedCallScheduled ==
    /\ _schedule # <<>> =>
           \A name \in LoadedIds :
               _schedule[1][name]._scheduled_call[1].remaining_runs # <<0>>
    /\ step = "tick" =>
           /\ DOMAIN dispatched \subseteq DOMAIN _schedule[1]
           /\ \A name \in get_enabled(scheduled_calls) :
                  scheduled_calls[name].remaining_runs = <<0>> =>
                      name \notin DOMAIN _schedule[1] \cup DOMAIN dispatched

\* C6 witness: a tick dispatched something while an enabled call with no
\* runs remaining sat in the store, out of _schedule.
NoExhaustedCallScheduledWitness ==
    /\ step = "tick"
    /\ dispatched # <<>>
    /\ \E id \in get_enabled(scheduled_calls) :
           /\ scheduled_calls[id].remaining_runs = <<0>>
           /\ id \notin DOMAIN _schedule[1]

----------------------------------------------------------------------------
(* The beat thread and the event monitor thread, statement by statement:   *)
(* FailureWatcher takes no lock, so the event monitor's handlers run       *)
(* between the statements of the beat thread's tick().                     *)

\* Where the beat thread is inside tick(): before trim(), or in trim()'s
\* loop with the ids its generator still yields.
InTick(pc, oldest_allowed, pending) ==
    <<[pc |-> pc, oldest_allowed |-> oldest_allowed, pending |-> pending]>>

\* tick(): ret = super(Scheduler, self).tick()
BeatDispatch ==
    /\ RealInstance
    /\ trim_state = <<>>
    /\ LET current == schedule(cache, scheduled_calls)
       IN  \E due \in DueSets(current._schedule[1]) :
               /\ _schedule' = current._schedule
               /\ _loaded_from_db_count' = current._loaded_from_db_count
               /\ _most_recent_timestamp' = current._most_recent_timestamp
               /\ _watches' = dispatch(_watches, current._schedule[1], due, now)
               /\ dispatched' = due
    /\ trim_state' = InTick("trim", 0, {})
    /\ step' = "dispatch"
    /\ trimmed' = <<>>
    /\ NoHandlerStep
    /\ UNCHANGED <<now, storeVars, processVars, monitorVars, workerVars, timeoutVars>>

\* trim(): oldest_allowed is computed, and self._watches.items() is the list
\* the generator filters.
TrimBegin ==
    /\ trim_state # <<>>
    /\ trim_state[1].pc = "trim"
    /\ LET oldest_allowed == now - ttl
           items == _watches
       IN  trim_state' = InTick("pop", oldest_allowed,
                                {task_id \in DOMAIN items :
                                    items[task_id].timestamp < oldest_allowed})
    /\ step' = "trim"
    /\ NoTickStep
    /\ NoHandlerStep
    /\ UNCHANGED <<now, watcherVars, storeVars, schedulerVars, processVars, monitorVars,
                   workerVars, timeoutVars>>

\* trim(): self._watches.pop(task_id, None) for the next id of the generator
TrimPop ==
    /\ trim_state # <<>>
    /\ trim_state[1].pc = "pop"
    /\ \E task_id \in trim_state[1].pending :
        /\ _watches' = Restrict(_watches, DOMAIN _watches \ {task_id})
        /\ trimmed' = Restrict(_watches, DOMAIN _watches \cap {task_id})
        /\ trim_state' = InTick("pop", trim_state[1].oldest_allowed,
                                trim_state[1].pending \ {task_id})
    /\ step' = "trim"
    /\ dispatched' = <<>>
    /\ NoHandlerStep
    /\ UNCHANGED <<now, storeVars, schedulerVars, processVars, monitorVars, workerVars,
                   timeoutVars>>

\* trim() returns, and tick() does.
TrimEnd ==
    /\ trim_state # <<>>
    /\ trim_state[1].pc = "pop"
    /\ trim_state[1].pending = {}
    /\ trim_state' = <<>>
    /\ NoStep
    /\ UNCHANGED <<now, watcherVars, storeVars, schedulerVars, processVars, monitorVars,
                   workerVars, timeoutVars>>

ConcNext ==
    \/ BeatDispatch
    \/ TrimBegin
    \/ TrimPop
    \/ TrimEnd
    \/ TaskSucceeded
    \/ TaskFailed
    \/ AdvanceTime

ConcSpec == Init /\ [][ConcNext]_vars

----------------------------------------------------------------------------
(* The event monitor thread and the construction of Schedulers *)

\* The event monitor thread is alive; while it captures, its Receiver has
\* the four handlers and the wakeup was asked for; what it caught is an
\* exception of the consumer.
MonitorAlive ==
    /\ emPc # "dead"
    /\ emPc = "capture" => handlers = EventTypes /\ wakeup
    /\ emPc = "except" => caught \in Exceptions

\* The thread leaves the except clause by logging what it caught, and is at
\* the top of the loop again.
CaughtLogged ==
    emPc = "except" /\ emPc' # "except" => emPc' = "run" /\ log' = Append(log, caught)

\* Only a raising step of the thread itself takes it out of capture.
CaptureLeft ==
    emPc = "capture" /\ emPc' # "capture" => emPc' = "except" /\ caught' \in Exceptions

\* C8: the event monitor loop never terminates: whatever the consumer raises
\* (a broker error, a store error of a task or worker handler, a KeyError for
\* an event without a required key) is caught and logged, and the monitor
\* enters monitor_events() again, where it has a connection, the four
\* handlers and the wakeup, so that later events are handled.
EventMonitorNeverTerminates ==
    /\ []MonitorAlive
    /\ [][CaughtLogged /\ CaptureLeft]_vars
    /\ (emPc = "except") ~> (emPc = "run")

\* An event is handled with a store call after an error was logged.
EventMonitorNeverTerminatesWitness ==
    /\ Len(log) > 0
    /\ emPc = "capture"
    /\ step = "event"
    /\ store_calls # <<>>

Spawned(target) == {i \in DOMAIN threads : threads[i].target = target}

RealInstances == {i \in DOMAIN instances : instances[i].lazy = FALSE}

\* C10: however many Schedulers the beat framework constructs, lazy or not,
\* the event monitor thread and the worker timeout thread are each started
\* once with the real instance and never before it, every thread belongs
\* to the real instance, and every instance, lazy or not, has its
\* FailureWatcher, EventMonitor and WorkerTimeoutMonitor.
ThreadsSpawnedOnceByReal ==
    /\ Cardinality(Spawned("_event_monitor.run")) = Cardinality(RealInstances)
    /\ Cardinality(Spawned("_worker_timeout_monitor.run")) = Cardinality(RealInstances)
    /\ Cardinality(RealInstances) <= 1
    /\ \A i \in DOMAIN threads : threads[i].self \in RealInstances /\ threads[i].daemon
    /\ \A i \in DOMAIN instances :
        /\ instances[i]._failure_watcher = <<>>
        /\ instances[i]._event_monitor = "EventMonitor"
        /\ instances[i]._worker_timeout_monitor = "WorkerTimeoutMonitor"

\* A lazy and the real instance were constructed, and the two threads run.
ThreadsSpawnedOnceByRealWitness ==
    /\ RealInstances # {}
    /\ DOMAIN instances \ RealInstances # {}
    /\ Len(threads) = 2
    /\ emPc = "capture"

----------------------------------------------------------------------------
(* The watch table under the two threads *)

\* C9: the accesses to the watch table from the beat thread and from the
\* event monitor thread are serialized, so that what trim() removes is a
\* watch that is older than the oldest_allowed of that trim(), never one that
\* was added again after trim() chose its id.
WatchTableSerialized ==
    step = "trim" /\ trim_state # <<>> =>
        \A task_id \in DOMAIN trimmed :
            trimmed[task_id].timestamp < trim_state[1].oldest_allowed

----------------------------------------------------------------------------
(* The workers *)

\* The event the last step handled was a worker event of this type, of a
\* resource manager or of another worker.
WorkerEventHandled(type, manager) ==
    /\ step' = "worker"
    /\ event'.type = type
    /\ "hostname" \in DOMAIN event'
    /\ (event'.hostname[1] = "resource_manager") = manager

\* A datetime as seconds since the epoch.
EpochSeconds(dt) == dt.days * 86400 + dt.seconds

ManagerEventStep ==
    \A type \in {"worker-heartbeat", "worker-offline"} :
        WorkerEventHandled(type, TRUE) =>
            /\ available_queues' = available_queues
            /\ delete_queue_tasks' = delete_queue_tasks
            /\ propagated' = None

\* C11: a worker-heartbeat or worker-offline event of a host
\* resource_manager@... changes nothing: no AvailableQueue record is created
\* or updated and no _delete_queue task is queued.
ManagerEventsChangeNothing == [][ManagerEventStep]_vars

\* A resource manager's heartbeat was handled while a worker has a record
\* and the resource manager has none.
ManagerEventsChangeNothingWitness ==
    /\ step = "worker"
    /\ event.type = "worker-heartbeat"
    /\ event.hostname[1] = "resource_manager"
    /\ available_queues # <<>>
    /\ event.hostname \notin DOMAIN available_queues

HeartbeatStep ==
    WorkerEventHandled("worker-heartbeat", FALSE) /\ propagated' = None =>
        LET name == event'.hostname
        IN  /\ DOMAIN available_queues' = DOMAIN available_queues \cup {name}
            /\ EpochSeconds(available_queues'[name].last_heartbeat) = event'.timestamp
            /\ name \in DOMAIN available_queues =>
                   available_queues'[name].num_reservations =
                       available_queues[name].num_reservations
            /\ \A other \in DOMAIN available_queues \ {name} :
                   available_queues'[other] = available_queues[other]
            /\ delete_queue_tasks' = delete_queue_tasks

\* C12: a worker-heartbeat of a worker that is no resource manager upserts
\* its AvailableQueue record: a missing record is inserted with the event's
\* timestamp as last_heartbeat, an existing one has its last_heartbeat set and
\* its num_reservations kept; the records, keyed by worker name, never hold
\* two for one worker.
HeartbeatUpserts == [][HeartbeatStep]_vars

\* A heartbeat updated the record of a reserved worker that was discovered
\* earlier.
HeartbeatUpsertsWitness ==
    /\ step = "worker"
    /\ event.type = "worker-heartbeat"
    /\ event.hostname \in DOMAIN available_queues
    /\ available_queues[event.hostname].num_reservations = 1
    /\ EpochSeconds(available_queues[event.hostname].last_heartbeat) = now
    /\ now > WorkerStart

\* The tasks a step queued.
Queued == SubSeq(delete_queue_tasks', Len(delete_queue_tasks) + 1, Len(delete_queue_tasks'))

Submissions(name) == {i \in DOMAIN Queued : Queued[i] = DeleteQueueTask(name)}

TimedOut(name) ==
    EpochSeconds(available_queues[name].last_heartbeat) < now - WORKER_TIMEOUT_SECONDS

SweepStep ==
    step' = "sweep" =>
        /\ SubSeq(delete_queue_tasks', 1, Len(delete_queue_tasks)) = delete_queue_tasks
        /\ \A i \in DOMAIN Queued : \E name \in DOMAIN available_queues :
               Queued[i] = DeleteQueueTask(name)
        /\ \A name \in DOMAIN available_queues :
               /\ ~TimedOut(name) => Submissions(name) = {}
               /\ TimedOut(name) => Cardinality(Submissions(name)) <= 1
               /\ TimedOut(name) /\ propagated' = None => Cardinality(Submissions(name)) = 1

\* C13: one check_workers() that returns queues exactly one _delete_queue
\* task, on the resource manager's queue, for every record with
\* last_heartbeat < utcnow() - 300 s, and none for a record whose
\* last_heartbeat is at the cutoff or later; one that raises has queued at
\* most one for each of the former.
SweepSubmitsTimedOut == [][SweepStep]_vars

\* A sweep queued the task for the worker that timed out and none for the
\* worker whose heartbeat is exactly 300 s old.
SweepSubmitsTimedOutWitness ==
    /\ step = "sweep"
    /\ propagated = None
    /\ Len(delete_queue_tasks) = 1
    /\ \E a, b \in DOMAIN available_queues :
        /\ delete_queue_tasks[1] = DeleteQueueTask(a)
        /\ EpochSeconds(available_queues[a].last_heartbeat) < now - WORKER_TIMEOUT_SECONDS
        /\ EpochSeconds(available_queues[b].last_heartbeat) = now - WORKER_TIMEOUT_SECONDS

OfflineStep ==
    /\ WorkerEventHandled("worker-offline", FALSE) /\ propagated' = None =>
           /\ delete_queue_tasks' =
                  Append(delete_queue_tasks,
                         [task |-> "_delete_queue", args |-> <<event'.hostname>>,
                          queue |-> "resource_manager"])
           /\ available_queues' = available_queues
    /\ step' = "sweep" => available_queues' = available_queues
    /\ DOMAIN available_queues \ DOMAIN available_queues' # {} => step' = "delete_queue"

\* C14: handling a worker-offline event of a worker that is no resource
\* manager queues exactly one _delete_queue(worker_name) task on the
\* resource_manager queue and leaves the AvailableQueue records alone; so
\* does the sweep: a record goes away only when a _delete_queue task runs.
OfflineOnlySubmits == [][OfflineStep]_vars

\* A worker with a record went offline: its task is queued, its record is
\* still there.
OfflineOnlySubmitsWitness ==
    /\ step = "worker"
    /\ event.type = "worker-offline"
    /\ event.hostname \in DOMAIN available_queues
    /\ delete_queue_tasks = <<DeleteQueueTask(event.hostname)>>

----------------------------------------------------------------------------
(* pop of a task that is not watched *)

\* C15: pop(task_id) of a task that is not in the watch table returns the
\* pair (None, None) and leaves the table as it is, so that the second of
\* two pops of one task returns that pair; a handler whose pop returned it
\* raises nothing and makes no store call.
PopMissingReturnsSentinel ==
    /\ \A task_id \in TaskIds :
           LET first == pop(_watches, task_id)
               second == pop(first.watches, task_id)
           IN  /\ task_id \notin DOMAIN _watches =>
                      first.returned = <<None, None>> /\ first.watches = _watches
               /\ second.returned = <<None, None>>
               /\ second.watches = first.watches
    /\ step = "event" /\ popped = <<None, None>> =>
           propagated = None /\ store_calls = <<>>

\* A handler popped a task that is not watched while another one is.
PopMissingReturnsSentinelWitness ==
    /\ step = "event"
    /\ popped = <<None, None>>
    /\ _watches # <<>>
    /\ event["uuid"] \notin DOMAIN _watches

----------------------------------------------------------------------------
(* The worker timeout monitor thread *)

\* The thread is alive, and what it caught is an exception of the sweep.
TimeoutMonitorAlive ==
    /\ wtPc # "dead"
    /\ wtPc = "except" => wtCaught \in {"StoreError", "BrokerError"}

\* A sweep that raises takes the thread into the except clause, and it
\* leaves the clause by logging what it caught, for the next sleep.
SweepErrorLogged ==
    /\ step' = "sweep" /\ propagated' # None => wtPc' = "except" /\ wtCaught' = propagated'
    /\ wtPc = "except" /\ wtPc' # "except" =>
           wtPc' = "sleep" /\ wtLog' = Append(wtLog, wtCaught)

\* C16: an exception of a sweep (of the query, or of a _delete_queue
\* submission) is logged and swallowed by run(): the thread does not end, and
\* it sleeps FREQUENCY and sweeps again.
TimeoutMonitorNeverTerminates ==
    /\ []TimeoutMonitorAlive
    /\ [][SweepErrorLogged]_vars
    /\ (wtPc = "except") ~> (wtPc = "sleep")

\* A sweep queued a task after the error of an earlier sweep was logged.
TimeoutMonitorNeverTerminatesWitness ==
    /\ Len(wtLog) > 0
    /\ step = "sweep"
    /\ propagated = None
    /\ delete_queue_tasks # <<>>

----------------------------------------------------------------------------
(* add() *)

AddStep ==
    step' = "add" =>
        /\ propagated' = "NotImplementedError"
        /\ UNCHANGED <<_schedule, _loaded_from_db_count, _most_recent_timestamp, _watches>>

\* C17: add() always raises NotImplementedError to its caller and leaves
\* _schedule, _loaded_from_db_count, _most_recent_timestamp and the watch
\* table as they are.
AddNotSupported == [][AddStep]_vars

\* add() was called on a Scheduler with a loaded schedule and a watched task.
AddNotSupportedWitness ==
    /\ step = "add"
    /\ propagated = "NotImplementedError"
    /\ _schedule # <<>>
    /\ _loaded_from_db_count > 0
    /\ _watches # <<>>

----------------------------------------------------------------------------
(* The schedule cache, once more *)

\* C18: schedule_changed is true iff the enabled calls of the store changed:
\* when the store was not written since the schedule property last ran, at
\* the end of a tick, schedule_changed is false, and the property would
\* return _schedule as it is.
UnchangedStoreNotChanged ==
    step = "tick" =>
        /\ ~schedule_changed(cache, scheduled_calls)
        /\ schedule(cache, scheduled_calls) = cache

\* The calls of the store that setup_schedule() makes entries of
Sourced ==
    {id \in DOMAIN scheduled_calls :
        scheduled_calls[id].enabled /\ scheduled_calls[id].remaining_runs # <<0>>}

\* A tick that has to load the schedule leaves what setup_schedule() makes of
\* the store.
RebuildStep ==
    step' = "tick" /\ (_schedule = <<>> \/ schedule_changed(cache, scheduled_calls)) =>
        /\ _schedule' # <<>>
        /\ DOMAIN _schedule'[1] = StaticKeys \cup Sourced
        /\ \A key \in StaticKeys \ Sourced :
               /\ ~_schedule'[1][key].is_ScheduleEntry
               /\ _schedule'[1][key].name = key
        /\ \A id \in Sourced :
               /\ _schedule'[1][id].is_ScheduleEntry
               /\ _schedule'[1][id].name = id
               /\ _schedule'[1][id]._scheduled_call = <<scheduled_calls[id]>>
        /\ _loaded_from_db_count' = Cardinality(Sourced)
        /\ \A id \in Sourced : scheduled_calls[id].last_updated <= _most_recent_timestamp'
        /\ \/ Sourced = {} /\ _most_recent_timestamp' = 0
           \/ \E id \in Sourced : scheduled_calls[id].last_updated = _most_recent_timestamp'

\* C19: after setup_schedule() _schedule holds exactly the statically
\* configured entries and one entry for every enabled call with
\* remaining_runs other than 0, under the call's id; _loaded_from_db_count
\* is the number of the latter, _most_recent_timestamp the latest
\* last_updated among them, or 0 without any; nothing of the schedule before
\* is left.
SetupScheduleLoadsEnabled == [][RebuildStep]_vars

\* A tick left one call loaded while another call of the store is disabled
\* or out of runs, and out of the schedule.
SetupScheduleLoadsEnabledWitness ==
    /\ step = "tick"
    /\ _loaded_from_db_count = 1
    /\ _most_recent_timestamp > 1
    /\ \E id \in DOMAIN scheduled_calls \ Sourced : id \notin DOMAIN _schedule[1]

\* What a tick's apply_async calls did for the entries it dispatched
DispatchStep ==
    step' = "tick" =>
        \A name \in DOMAIN dispatched' :
            LET entry == _schedule'[1][name]
                task_id == dispatched'[name]
            IN  IF /\ entry._scheduled_call # <<>>
                   /\ entry._scheduled_call[1].failure_threshold # <<>>
                THEN /\ task_id \in DOMAIN _watches'
                     /\ _watches'[task_id].schedule_id = name
                     /\ _watches'[task_id].has_failure =
                            (entry._scheduled_call[1].consecutive_failures > 0)
                     /\ _watches'[task_id].timestamp = now
                ELSE task_id \notin DOMAIN _watches'

\* C20: apply_async(entry) adds a watch for the task it queued iff the entry
\* comes from a ScheduledCall with a failure_threshold that is not null; the
\* watch has the entry's name as schedule_id and consecutive_failures > 0 as
\* has_failure; a statically configured entry or one without a threshold
\* adds no watch.
ApplyAsyncWatchesThreshold == [][DispatchStep]_vars

\* A tick dispatched a schedule that has a threshold and a failure.
ApplyAsyncWatchesThresholdWitness ==
    /\ step = "tick"
    /\ \E name \in DOMAIN dispatched :
        /\ dispatched[name] \in DOMAIN _watches
        /\ _watches[dispatched[name]].schedule_id = name
        /\ _watches[dispatched[name]].has_failure

----------------------------------------------------------------------------
(* The watch table in the long run *)

\* The last second of the clock, and the times of it a watch can be added at
\* and grow older than ttl before the clock ends.
ClockEnd == MaxJumps * ttl + MaxSecs

ExpirableTimes ==
    {t \in {jumps * ttl + secs : jumps \in 0..MaxJumps, secs \in 0..MaxSecs} :
        t + ttl < ClockEnd}

Watched(task_id, timestamp) ==
    task_id \in DOMAIN _watches /\ _watches[task_id].timestamp = timestamp

\* C21: every watch that was added is removed in the end, while the beat
\* thread keeps ticking: by the handler of the task's event, or, with no
\* event, by the trim() of a tick once the watch is older than ttl.
WatchEventuallyRemoved ==
    \A task_id \in TaskIds : \A timestamp \in ExpirableTimes :
        Watched(task_id, timestamp) ~> ~Watched(task_id, timestamp)

\* A tick's trim removed a watch that no event had removed in a whole ttl.
WatchEventuallyRemovedWitness ==
    /\ step = "tick"
    /\ now = ClockEnd
    /\ \E task_id \in DOMAIN trimmed : trimmed[task_id].timestamp \in ExpirableTimes

----------------------------------------------------------------------------
(* Overlapping runs of one schedule *)

\* The runs of a schedule that are in flight are the tasks watched for it.
InFlight(schedule_id) ==
    {task_id \in DOMAIN _watches : _watches[task_id].schedule_id = schedule_id}

\* C22 as stated: when the last run in flight of a schedule succeeded with
\* a result that is not a task, and the events of all its runs have been
\* handled, the schedule's consecutive_failures is 0.
OverlapAbsorbed ==
    (/\ WatchedEvent("task-succeeded")
     /\ ~result.is_async_result
     /\ InFlight(popped[1]) = {}
     /\ popped[1] \in DOMAIN scheduled_calls) =>
        scheduled_calls[popped[1]].consecutive_failures = 0

----------------------------------------------------------------------------
(* Chained results *)

\* The event monitor handled the task-failed event of a child task, and
\* right after it the task-succeeded event of the watched parent whose
\* result is that child.
ChildFailedFirst ==
    /\ step = "event"
    /\ event.type = "task-failed"
    /\ "uuid" \in DOMAIN event
    /\ step' = "event"
    /\ event'.type = "task-succeeded"
    /\ popped'[1] # None
    /\ result'.is_async_result
    /\ result'.id = event["uuid"]

\* C23 as stated: a failed child of a watched parent leads to exactly one
\* increment_failure_count(schedule_id), also when the child's task-failed
\* event is handled before the parent's task-succeeded event.
ChildFailureCounted ==
    [][ChildFailedFirst =>
          \/ store_calls = <<Increment(popped'[1])>> /\ store_calls' = <<>>
          \/ store_calls = <<>> /\ store_calls' = <<Increment(popped'[1])>>]_vars

----------------------------------------------------------------------------
(* The records of workers that stopped *)

\* The time of the last sweep, and the heartbeat times a record can have
\* and be WORKER_TIMEOUT_SECONDS old at a sweep that does not raise.
LastSweep == WorkerStart + MaxSleeps * FREQUENCY

ExpirableHeartbeats ==
    {t \in {WorkerStart + sleeps * FREQUENCY : sleeps \in 0..MaxSleeps} :
        t + WORKER_TIMEOUT_SECONDS + MaxErrors * FREQUENCY < LastSweep}

RecordAt(name, seconds) ==
    name \in DOMAIN available_queues
        /\ EpochSeconds(available_queues[name].last_heartbeat) = seconds

SubjectOfDeleteQueue(name) ==
    \E i \in DOMAIN delete_queue_tasks : delete_queue_tasks[i] = DeleteQueueTask(name)

\* C24: while the timeout monitor's loop keeps running, the record of a
\* worker whose heartbeats have stopped becomes the subject of a
\* _delete_queue task for the resource manager's queue, whether no
\* worker-offline event came or a heartbeat made the record again after one.
StoppedWorkerSwept ==
    \A name \in AllHostnames : \A seconds \in ExpirableHeartbeats :
        RecordAt(name, seconds) ~> (SubjectOfDeleteQueue(name) \/ ~RecordAt(name, seconds))

\* A sweep after one that raised submitted the task for a record that no
\* heartbeat had touched in WORKER_TIMEOUT_SECONDS.
StoppedWorkerSweptWitness ==
    /\ step = "sweep"
    /\ propagated = None
    /\ wtLog # <<>>
    /\ delete_queue_tasks # <<>>
    /\ \E name \in AllHostnames : \E seconds \in ExpirableHeartbeats :
           /\ RecordAt(name, seconds)
           /\ delete_queue_tasks[Len(delete_queue_tasks)] = DeleteQueueTask(name)
           /\ \A i \in 1..(Len(delete_queue_tasks) - 1) :
                  delete_queue_tasks[i] # DeleteQueueTask(name)

----------------------------------------------------------------------------
(* Store errors in the task handlers *)

\* A task handler's store call raised: the watch of the event's task was
\* there, is gone, and the store is as it was.
StoreErrorStep ==
    (step' = "event" /\ propagated' = "StoreError") =>
        /\ event'["uuid"] \in DOMAIN _watches
        /\ event'["uuid"] \notin DOMAIN _watches'
        /\ store_calls' \in {<<Increment(popped'[1])>>, <<Reset(popped'[1])>>}
        /\ scheduled_calls' = scheduled_calls

\* A task id enters the watch table when a tick dispatches a task under it
\* or a watched parent's result is the task, and in no other step.
WatchEntersStep ==
    \A task_id \in TaskIds :
        (task_id \notin DOMAIN _watches /\ task_id \in DOMAIN _watches') =>
            \/ step' = "tick" /\ \E name \in DOMAIN dispatched' : dispatched'[name] = task_id
            \/ /\ step' = "event"
               /\ event'.type = "task-succeeded"
               /\ popped'[1] # None
               /\ result' = ChildResult(task_id)

\* An event of a task that is not watched makes no store call.
UnwatchedEventStep ==
    (step' = "event" /\ "uuid" \in DOMAIN event' /\ event'["uuid"] \notin DOMAIN _watches) =>
        store_calls' = <<>> /\ scheduled_calls' = scheduled_calls

\* C25: when increment_failure_count or reset_failure_count raises in a
\* task handler the watch of the task is already gone and nothing puts it
\* back, so a later event of that task makes no store call and the outcome
\* never reaches the schedule's count.
StoreErrorLosesOutcome == [][StoreErrorStep /\ WatchEntersStep /\ UnwatchedEventStep]_vars

\* increment_failure_count raised in the handler of a watched task's
\* task-failed event: the watch is gone, the count is the one the store had,
\* and run() has caught the error.
StoreErrorLosesOutcomeWitness ==
    /\ step = "event"
    /\ propagated = "StoreError"
    /\ event.type = "task-failed"
    /\ popped[1] = "s1"
    /\ store_calls = <<Increment("s1")>>
    /\ event["uuid"] \notin DOMAIN _watches
    /\ scheduled_calls["s1"].consecutive_failures = 1
    /\ emPc = "except"

====
